---- MODULE Spec2Model ----
(***************************************************************************)
(* Model of netplan's src/error.c: the diagnostics built for YAML syntax   *)
(* faults (parser_error), for semantic faults (yaml_error), and the error  *)
(* handle accessors (netplan_error_code, netplan_error_clear).             *)
(*                                                                         *)
(* Text is a sequence of one-character strings, except that the pieces a   *)
(* printf conversion inserts whole (a file name, a decimal number, the     *)
(* caller's message, a fixed piece of the format) are one element each.    *)
(* A C string in memory is the bytes up to the first NUL.                  *)
(***************************************************************************)
EXTENDS Integers, Sequences, FiniteSets, TLC

\* ---------------------------------------------------------------- bounds
MaxBuf     == 2    \* longest scan buffer
MaxGarbage == 1    \* longest run of stray bytes found behind buffer.last
MaxFile    == 3    \* longest source file, in bytes
MaxLine    == 2    \* largest 0-based line of a mark
MaxCol     == 2    \* largest 0-based column of a mark
MaxDomain  == 3    \* largest domain of a handle made elsewhere
MaxCode    == 2    \* largest magnitude of the code of a handle made elsewhere

\* ------------------------------------------------------------ characters
NULL   == <<>>         \* the null pointer
Ptr(x) == <<x>>         \* a pointer to x; p[1] is *p
NUL   == "NUL"          \* the byte '\0'
NL    == "\n"
TAB   == "\t"
SP    == " "
CARET == "^"

Byte     == {"a", NL, TAB, SP, NUL}
FileByte == {"a", "b", NL}

SeqsUpTo(S, n) == UNION {[1..k -> S] : k \in 0..n}

\* --------------------------------------------------- names from headers
\* The values live in headers outside this file; only distinctness matters.
NETPLAN_PARSER_ERROR            == 1
NETPLAN_VALIDATION_ERROR        == 2
G_IO_ERROR                      == 3
NETPLAN_ERROR_INVALID_YAML      == 0
NETPLAN_ERROR_INVALID_CONFIG    == 1
NETPLAN_ERROR_CONFIG_GENERIC    == 0
NETPLAN_ERROR_CONFIG_VALIDATION == 1
G_IO_ERROR_FAILED               == 2

YAML_PARSE_BLOCK_MAPPING_KEY_STATE == "YAML_PARSE_BLOCK_MAPPING_KEY_STATE"
YAML_PARSE_OTHER_STATE             == "YAML_PARSE_BLOCK_NODE_STATE"

VARIABLES
    parser,      \* yaml_parser_t: buffer, pointer, token_available, state, problem, problem_mark
    npp,         \* NetplanParser: current.filepath
    node,        \* yaml_node_t* handed to yaml_error (NULL or its start_mark)
    msg,         \* the formatted message s of yaml_error
    disk,        \* the file named by current.filepath: status and content
    error,       \* *error: NULL or a GError [domain, code, message]
    pc,          \* which call is pending or has returned
    entry,       \* the parser as it was when parser_error was entered
    reads,       \* buffer indices get_parser_error_context has read
    nreads,      \* calls of g_data_input_stream_read_line made
    prefix,      \* the context text in front of the marker ("<line>\n")
    context,     \* the string returned by get_*_error_context
    error_code   \* the value returned by netplan_error_code (64 bits)

vars == <<parser, npp, node, msg, disk, error, pc, entry, reads, nreads,
          prefix, context, error_code>>

\* ------------------------------------------------------ Caret Renderer
RECURSIVE marker_loop(_, _, _)
\* for (i = 0; (column > 0 && i < column); i++) append " "
marker_loop(message, i, column) ==
    IF column > 0 /\ i < column
    THEN marker_loop(Append(message, SP), i + 1, column)
    ELSE message

write_error_marker_offbyone(message, column) ==
    Append(marker_loop(message, 0, column + 1), CARET)

write_error_marker(message, column) ==
    Append(marker_loop(message, 0, column), CARET)

\* -------------------------------------------------------------- GError
\* g_set_error: stores the new error only when *error is still NULL
g_set_error(err, domain, code, message) ==
    IF err = NULL
    THEN Ptr([domain |-> domain, code |-> code, message |-> message])
    ELSE err

\* ------------------------------------------------- Buffer Line Locator
\* parser->buffer.start is index 1; parser->buffer.last is the index of
\* the last valid byte, Len(buffer) (0 for a zero-length buffer).
buffer_start == 1
buffer_last(buf) == Len(buf)

RECURSIVE scan_back(_, _, _, _)
\* while (current > start) { current--; if (*current == '\n') { line = current + 1; break; } }
scan_back(buf, line, current, rd) ==
    IF current > buffer_start
    THEN LET c == current - 1 IN
         IF buf[c] = NL
         THEN [line |-> c + 1, current |-> c, reads |-> rd \cup {c}]
         ELSE scan_back(buf, line, c, rd \cup {c})
    ELSE [line |-> line, current |-> current, reads |-> rd]

\* if (current <= start) line = start;
line_start(buf, pointer) ==
    LET b == scan_back(buf, pointer, pointer, {}) IN
    [line  |-> IF b.current <= buffer_start THEN buffer_start ELSE b.line,
     reads |-> b.reads]

RECURSIVE scan_forward(_, _, _)
\* while (current <= last) { if (*current == '\n') { *current = '\0'; break; } current++; }
scan_forward(buf, current, rd) ==
    IF current <= buffer_last(buf)
    THEN IF buf[current] = NL
         THEN [buffer |-> [buf EXCEPT ![current] = NUL], reads |-> rd \cup {current}]
         ELSE scan_forward(buf, current + 1, rd \cup {current})
    ELSE [buffer |-> buf, reads |-> rd]

RECURSIVE c_string(_, _, _, _)
\* "%s" of a pointer into the buffer: the bytes up to the first NUL.  When
\* no NUL lies at or before buffer.last the read runs on behind it.
c_string(buf, i, text, rd) ==
    IF i > buffer_last(buf)
    THEN [text |-> text, reads |-> rd \cup {i}, overrun |-> TRUE]
    ELSE IF buf[i] = NUL
         THEN [text |-> text, reads |-> rd \cup {i}, overrun |-> FALSE]
         ELSE c_string(buf, i + 1, Append(text, buf[i]), rd \cup {i})

\* What a read behind buffer.last can find before it meets a NUL: any
\* run of bytes, here of an ordinary byte and the newline.
Garbage == SeqsUpTo({"a", NL}, MaxGarbage)

\* get_parser_error_context; tail is what lies behind buffer.last
get_parser_error_context(p, tail) ==
    LET ls   == line_start(p.buffer, p.pointer)
        fw   == scan_forward(p.buffer, ls.line + 1, ls.reads)
        str  == c_string(fw.buffer, ls.line, <<>>, fw.reads)
        text == IF str.overrun THEN str.text \o tail ELSE str.text
        head == Append(text, NL)
    IN  [buffer  |-> fw.buffer,
         reads   |-> str.reads,
         overrun |-> str.overrun,
         prefix  |-> head,
         context |-> write_error_marker(head, p.problem_mark.column)]

\* ------------------------------------------------ Heuristic Classifier
\* the if / else-if chain of parser_error over *parser->buffer.pointer
category(byte, token_available, state, problem) ==
    IF byte = TAB
    THEN "tabs are not allowed for indent"
    ELSE IF (byte = SP \/ byte = NUL) /\ ~token_available
    THEN "aliases are not supported"
    ELSE IF state = YAML_PARSE_BLOCK_MAPPING_KEY_STATE
    THEN "inconsistent indentation"
    ELSE problem

\* "%s:%zu:%zu: Invalid YAML: %s:\n%s"
syntax_message(yaml, mark, cat, error_context) ==
    <<yaml, ":", ToString(mark.line + 1), ":", ToString(mark.column + 1),
      ": Invalid YAML: ", cat, ":", NL>> \o error_context

\* parser_error; stray is the byte found at buffer.pointer when the
\* pointer lies behind buffer.last
parser_error(p, yaml, err, tail, stray) ==
    LET ctx  == get_parser_error_context(p, tail)
        name == IF yaml # NULL THEN yaml[1] ELSE "(unnamed file)"
        byte == IF p.pointer <= buffer_last(ctx.buffer)
                THEN ctx.buffer[p.pointer] ELSE stray
        cat  == category(byte, p.token_available, p.state, p.problem)
    IN  [parser  |-> [p EXCEPT !.buffer = ctx.buffer],
         reads   |-> ctx.reads,
         prefix  |-> ctx.prefix,
         context |-> ctx.context,
         error   |-> g_set_error(err, NETPLAN_PARSER_ERROR, NETPLAN_ERROR_INVALID_YAML,
                                 syntax_message(name, p.problem_mark, cat, ctx.context))]

\* --------------------------------------------------- File Line Locator
RECURSIVE line_end(_, _)
\* index of the first newline at or after pos, or Len(content) + 1
line_end(content, pos) ==
    IF pos > Len(content) \/ content[pos] = NL THEN pos
    ELSE line_end(content, pos + 1)

\* g_data_input_stream_read_line: the next line without its newline, or
\* NULL at end of input, on a NULL stream, or on a read error (which
\* also sets *error)
read_line(stream, err) ==
    IF stream = NULL
    THEN [line |-> NULL, stream |-> NULL, error |-> err]
    ELSE IF stream[1].failing
    THEN [line |-> NULL, stream |-> stream,
          error |-> g_set_error(err, G_IO_ERROR, G_IO_ERROR_FAILED, <<"read failed">>)]
    ELSE IF stream[1].pos > Len(stream[1].content)
    THEN [line |-> NULL, stream |-> stream, error |-> err]
    ELSE LET e == line_end(stream[1].content, stream[1].pos) IN
         [line   |-> Ptr(SubSeq(stream[1].content, stream[1].pos, e - 1)),
          stream |-> Ptr([stream[1] EXCEPT !.pos = e + 1]),
          error  |-> err]

RECURSIVE read_loop(_, _, _, _, _)
\* { g_free(line); line = g_data_input_stream_read_line(stream, &len, NULL, error); }
read_loop(stream, i, bound, line, err) ==
    IF i < bound
    THEN LET r == read_line(stream, err) IN
         read_loop(r.stream, i + 1, bound, r.line, r.error)
    ELSE [line |-> line, error |-> err, count |-> i]

read_lines_short(stream, line_num, err) ==
    read_loop(stream, 0, line_num, NULL, err)

\* for (int i = 0; i < line_num + 1; i++) ...
read_lines(stream, line_num, err) ==
    read_loop(stream, 0, line_num + 1, NULL, err)

\* g_file_read + g_data_input_stream_new: a stream at the start of the
\* file, or NULL with *error set when the file cannot be opened
open_stream(d, err) ==
    IF d.status = "noopen"
    THEN [stream |-> NULL,
          error  |-> g_set_error(err, G_IO_ERROR, G_IO_ERROR_FAILED, <<"open failed">>)]
    ELSE [stream |-> Ptr([content |-> d.content, pos |-> 1,
                          failing |-> d.status = "readerr"]),
          error  |-> err]

\* The outcomes of handing a NULL pointer to "%s".
NullOutcome == {"(null)", "crash"}

\* get_syntax_error_context; onNull is what "%s" does with a NULL line
get_syntax_error_context(d, line_num, column, err, onNull) ==
    LET o    == open_stream(d, err)
        r    == read_lines(o.stream, line_num, o.error)
        text == IF r.line = NULL THEN <<"(null)">> ELSE r.line[1]
        head == Append(text, NL)
    IN  [crash   |-> r.line = NULL /\ onNull = "crash",
         line    |-> r.line,
         nreads  |-> r.count,
         error   |-> r.error,
         prefix  |-> head,
         context |-> write_error_marker(head, column)]

\* ------------------------------------------------ Diagnostic Formatter
\* "%s:%zu:%zu: Error in network definition: %s\n%s"
config_message(filepath, mark, s, error_context) ==
    <<filepath, ":", ToString(mark.line + 1), ":", ToString(mark.column + 1),
      ": Error in network definition: ", s, NL>> \o error_context

\* yaml_error
yaml_error(np, nd, d, err, s, onNull) ==
    IF nd # NULL /\ np.filepath # NULL
    THEN LET ctx == get_syntax_error_context(d, nd[1].line, nd[1].column, err, onNull) IN
         [crash   |-> ctx.crash,
          nreads  |-> ctx.nreads,
          prefix  |-> Ptr(ctx.prefix),
          context |-> Ptr(ctx.context),
          error   |-> g_set_error(ctx.error, NETPLAN_PARSER_ERROR, NETPLAN_ERROR_INVALID_CONFIG,
                                  config_message(np.filepath[1], nd[1], s, ctx.context))]
    ELSE IF np.filepath # NULL
    THEN [crash |-> FALSE, nreads |-> 0, prefix |-> NULL, context |-> NULL,
          error |-> g_set_error(err, NETPLAN_VALIDATION_ERROR, NETPLAN_ERROR_CONFIG_VALIDATION,
                                <<np.filepath[1], ": Error in network definition: ", s>>)]
    ELSE [crash |-> FALSE, nreads |-> 0, prefix |-> NULL, context |-> NULL,
          error |-> g_set_error(err, NETPLAN_VALIDATION_ERROR, NETPLAN_ERROR_CONFIG_GENERIC,
                                <<"Error in network definition: ", s>>)]

\* -------------------------------------------------------- Error Handle
Word  == 64     \* bits of uint64_t
Shift == 32

RECURSIVE nat_bit(_, _)
\* bit i of the natural number n
nat_bit(n, i) == IF i = 0 THEN n % 2 ELSE nat_bit(n \div 2, i - 1)

\* (uint64_t)n: n modulo 2^64, as bits 0..63 (two's complement of a
\* negative n, so a negative gint is sign-extended)
to_uint64(n) ==
    [i \in 0..(Word - 1) |-> IF n >= 0 THEN nat_bit(n, i) ELSE 1 - nat_bit(-n - 1, i)]

shift_left(x, k) == [i \in 0..(Word - 1) |-> IF i < k THEN 0 ELSE x[i - k]]

bit_or(x, y) == [i \in 0..(Word - 1) |-> IF x[i] = 1 \/ y[i] = 1 THEN 1 ELSE 0]

\* (uint64_t)error->domain << 32 | (uint64_t)error->code
netplan_error_code(err) ==
    bit_or(shift_left(to_uint64(err[1].domain), Shift), to_uint64(err[1].code))

\* ---------------------------------------------------------------- state
Marks == [line : 0..MaxLine, column : 0..MaxCol]

IdleParser ==
    [buffer |-> <<>>, pointer |-> buffer_start, token_available |-> FALSE,
     state |-> YAML_PARSE_OTHER_STATE, problem |-> "",
     problem_mark |-> [line |-> 0, column |-> 0]]

NoDisk == [status |-> "ok", content |-> <<>>]

\* the newlines in front of index i
NewlinesBefore(buf, i) == Cardinality({j \in 1..(i - 1) : buf[j] = NL})

\* A tokenizer stopped on a syntax fault: start <= pointer <= last (a
\* zero-length buffer has its pointer at start); the problem mark is on
\* the line the pointer has reached, at any column.
Pointers(b) == IF b = <<>> THEN {buffer_start} ELSE buffer_start..buffer_last(b)

FaultedParsers ==
    UNION {
      {[buffer |-> b, pointer |-> q, token_available |-> t, state |-> st,
        problem |-> "did not find expected key",
        problem_mark |-> [line |-> NewlinesBefore(b, q), column |-> c]] :
          q \in Pointers(b), t \in BOOLEAN,
          st \in {YAML_PARSE_BLOCK_MAPPING_KEY_STATE, YAML_PARSE_OTHER_STATE},
          c \in 0..MaxCol} :
      b \in SeqsUpTo(Byte, MaxBuf)}

Paths == {NULL, Ptr("net.yaml")}

Disks == [status : {"ok", "noopen", "readerr"}, content : SeqsUpTo(FileByte, MaxFile)]

\* Handles made by other code: any guint32 domain, any gint code.
ForeignErrors ==
    {Ptr(e) : e \in [domain : 0..MaxDomain, code : (-MaxCode)..MaxCode,
                      message : {<<"elsewhere">>}]}

InitSyntax ==
    /\ parser \in FaultedParsers
    /\ npp \in [filepath : Paths]
    /\ node = NULL /\ msg = "" /\ disk = NoDisk /\ error = NULL
    /\ pc = "syntax_fault"

InitSemantic ==
    /\ parser = IdleParser
    /\ npp \in [filepath : Paths]
    /\ node \in {Ptr(m) : m \in Marks} \cup {NULL}
    /\ msg = "invalid value"
    /\ disk \in Disks
    /\ error = NULL
    /\ pc = "semantic_fault"

InitHandle ==
    /\ parser = IdleParser
    /\ npp = [filepath |-> NULL]
    /\ node = NULL /\ msg = "" /\ disk = NoDisk
    /\ error \in ForeignErrors
    /\ pc = "handle"

Init ==
    /\ (InitSyntax \/ InitSemantic \/ InitHandle)
    /\ entry = parser
    /\ reads = {}
    /\ nreads = 0
    /\ prefix = NULL
    /\ context = NULL
    /\ error_code = NULL

\* -------------------------------------------------------------- actions
\* The memory behind buffer.last matters only to a call that reads it.
Tails(p) == IF get_parser_error_context(p, <<>>).overrun THEN Garbage ELSE {<<>>}

Strays(p) == IF p.pointer <= buffer_last(p.buffer) THEN {NUL} ELSE Byte

ParserError ==
    /\ pc = "syntax_fault"
    /\ \E tail \in Tails(parser), stray \in Strays(parser) :
         LET r == parser_error(parser, npp.filepath, error, tail, stray) IN
         /\ entry' = parser
         /\ parser' = r.parser
         /\ reads' = r.reads
         /\ prefix' = Ptr(r.prefix)
         /\ context' = Ptr(r.context)
         /\ error' = r.error
    /\ pc' = "syntax_reported"
    /\ UNCHANGED <<npp, node, msg, disk, nreads, error_code>>

YamlError ==
    /\ pc = "semantic_fault"
    /\ \E onNull \in NullOutcome :
         LET r == yaml_error(npp, node, disk, error, msg, onNull) IN
         /\ nreads' = r.nreads
         /\ IF r.crash
            THEN /\ pc' = "crashed"
                 /\ UNCHANGED <<prefix, context, error>>
            ELSE /\ pc' = "semantic_reported"
                 /\ prefix' = r.prefix
                 /\ context' = r.context
                 /\ error' = r.error
    /\ UNCHANGED <<parser, npp, node, msg, disk, entry, reads, error_code>>

Returned == pc \in {"syntax_reported", "semantic_reported", "handle"}

NetplanErrorCode ==
    /\ Returned
    /\ error # NULL
    /\ error_code = NULL
    /\ error_code' = Ptr(netplan_error_code(error))
    /\ UNCHANGED <<parser, npp, node, msg, disk, error, pc, entry, reads, nreads,
                   prefix, context>>

\* g_clear_error: frees *error and sets it to NULL; nothing to do on NULL
NetplanErrorClear ==
    /\ Returned \/ pc = "cleared"
    /\ error' = NULL
    /\ pc' = "cleared"
    /\ UNCHANGED <<parser, npp, node, msg, disk, entry, reads, nreads,
                   prefix, context, error_code>>

Next == ParserError \/ YamlError \/ NetplanErrorCode \/ NetplanErrorClear

Spec == Init /\ [][Next]_vars

\* ======================================================== properties
SyntaxDone   == pc = "syntax_reported" /\ error # NULL
SemanticDone == pc = "semantic_reported" /\ error # NULL
Positional   == node # NULL /\ npp.filepath # NULL

Spaces(k) == [i \in 1..k |-> SP]

SetMax(S) == CHOOSE x \in S : \A y \in S : y <= x
SetMin(S) == CHOOSE x \in S : \A y \in S : x <= y

\* The line of buf that holds index cur: from behind the nearest newline
\* strictly before cur up to, not including, the next newline.
ExactLine(buf, cur) ==
    LET before == {j \in 1..(cur - 1) : j <= Len(buf) /\ buf[j] = NL}
        begin  == IF before = {} THEN 1 ELSE SetMax(before) + 1
        after  == {j \in begin..Len(buf) : buf[j] = NL}
        stop   == IF after = {} THEN Len(buf) + 1 ELSE SetMin(after)
    IN  SubSeq(buf, begin, stop - 1)

\* The lines of a file: each newline ends one, and so does the end of a
\* file whose last byte is not a newline.
Newlines(content) == {i \in 1..Len(content) : content[i] = NL}

NumLines(content) ==
    Cardinality(Newlines(content))
      + (IF Len(content) > 0 /\ content[Len(content)] # NL THEN 1 ELSE 0)

\* line k (1-based) of a file with at least k lines
FileLine(content, k) ==
    LET nth(j) == CHOOSE q \in Newlines(content) :
                      Cardinality({r \in Newlines(content) : r <= q}) = j
        begin  == IF k = 1 THEN 1 ELSE nth(k - 1) + 1
        after  == {j \in begin..Len(content) : content[j] = NL}
        stop   == IF after = {} THEN Len(content) + 1 ELSE SetMin(after)
    IN  SubSeq(content, begin, stop - 1)

\* the 32-bit representation of a guint32 or of a gint (two's complement)
Bits32(n) ==
    [i \in 0..(Shift - 1) |-> IF n >= 0 THEN nat_bit(n, i) ELSE 1 - nat_bit(-n - 1, i)]

High32(x) == [i \in 0..(Shift - 1) |-> x[i + Shift]]
Low32(x)  == [i \in 0..(Shift - 1) |-> x[i]]

\* C1: the category of a syntax diagnostic follows, first match first, from
\* the byte at buffer.pointer when parser_error is called, token_available
\* and the state: tab, then space or NUL without a token, then the
\* block-mapping-key state, else the tokenizer's problem text.
C1_ClassifierPrecedence ==
    (SyntaxDone /\ entry.pointer <= Len(entry.buffer)) =>
        LET b == entry.buffer[entry.pointer] IN
        error[1].message[7] =
            IF b = TAB THEN "tabs are not allowed for indent"
            ELSE IF (b = SP \/ b = NUL) /\ ~entry.token_available
                 THEN "aliases are not supported"
            ELSE IF entry.state = YAML_PARSE_BLOCK_MAPPING_KEY_STATE
                 THEN "inconsistent indentation"
            ELSE entry.problem

\* C2: when the source file cannot be opened or read while yaml_error
\* builds a positional diagnostic, the error returned is still the
\* semantic fault: invalid-config, "Error in network definition: <msg>".
C2_IoFailureDoesNotMask ==
    (pc = "semantic_reported" /\ Positional /\ disk.status # "ok") =>
        /\ error # NULL
        /\ error[1].domain = NETPLAN_PARSER_ERROR
        /\ error[1].code = NETPLAN_ERROR_INVALID_CONFIG
        /\ Len(error[1].message) >= 7
        /\ error[1].message[6] = ": Error in network definition: "
        /\ error[1].message[7] = msg

\* C3: get_parser_error_context returns exactly the line that holds the
\* current pointer, with no newline and no byte of a neighbouring line.
C3_ExactLineOfPointer ==
    SyntaxDone => prefix[1] = Append(ExactLine(entry.buffer, entry.pointer), NL)

\* C4: get_parser_error_context reads no byte below buffer.start or
\* behind buffer.last.
C4_ReadsInsideBuffer ==
    pc = "syntax_reported" =>
        reads \subseteq buffer_start..buffer_last(entry.buffer)

\* C5: parser_error leaves the tokenizer's ScanBuffer as it found it.
C5_ParserUnchanged ==
    pc = "syntax_reported" => parser = entry

\* C6: yaml_error picks its message by what is known: position and path
\* give the 1-based positional message with a line+caret block and the
\* invalid-config code; a path alone gives "<file>: Error in network
\* definition: <msg>" as validation; neither gives "Error in network
\* definition: <msg>" as generic.
C6_MessageVariants ==
    pc = "semantic_reported" =>
        /\ error # NULL
        /\ Positional =>
             /\ error[1].code = NETPLAN_ERROR_INVALID_CONFIG
             /\ context # NULL
             /\ error[1].message =
                  <<npp.filepath[1], ":", ToString(node[1].line + 1), ":",
                    ToString(node[1].column + 1),
                    ": Error in network definition: ", msg, NL>> \o context[1]
             /\ context[1] = prefix[1] \o Spaces(node[1].column) \o <<CARET>>
        /\ (node = NULL /\ npp.filepath # NULL) =>
             /\ error[1].code = NETPLAN_ERROR_CONFIG_VALIDATION
             /\ error[1].message =
                  <<npp.filepath[1], ": Error in network definition: ", msg>>
        /\ (node = NULL /\ npp.filepath = NULL) =>
             /\ error[1].code = NETPLAN_ERROR_CONFIG_GENERIC
             /\ error[1].message = <<"Error in network definition: ", msg>>

\* C7: when the file has fewer lines than line_num + 1, the context line
\* is the last line that was read from the file.
C7_ShortFileKeepsLastLine ==
    (pc = "semantic_reported" /\ Positional /\ disk.status = "ok"
        /\ NumLines(disk.content) >= 1
        /\ NumLines(disk.content) < node[1].line + 1) =>
        prefix[1] = Append(FileLine(disk.content, NumLines(disk.content)), NL)

\* C8: for a readable file with at least n + 1 lines and a node on
\* 0-based line n, the locator makes n + 1 line reads and returns line
\* n + 1 of the file, the line number the message shows, with the caret
\* behind as many spaces as the node's column.
C8_LocatorReturnsDisplayedLine ==
    (SemanticDone /\ Positional /\ disk.status = "ok"
        /\ NumLines(disk.content) >= node[1].line + 1) =>
        /\ nreads = node[1].line + 1
        /\ prefix[1] = Append(FileLine(disk.content, node[1].line + 1), NL)
        /\ error[1].message[3] = ToString(node[1].line + 1)
        /\ error[1].message[5] = ToString(node[1].column + 1)
        /\ context[1] = prefix[1] \o Spaces(node[1].column) \o <<CARET>>
        /\ SubSeq(error[1].message, 9, Len(error[1].message)) = context[1]

C8_Witness ==
    /\ SemanticDone /\ Positional /\ disk.status = "ok"
    /\ node[1].line = 1 /\ node[1].column = 2
    /\ NumLines(disk.content) >= 2
    /\ prefix = Ptr(<<"b", NL>>)
    /\ nreads = 2

\* C9: the high 32 bits of netplan_error_code are the handle's domain and
\* the low 32 bits are its code.
C9_CodeRoundTrips ==
    (error_code # NULL /\ error # NULL) =>
        /\ High32(error_code[1]) = Bits32(error[1].domain)
        /\ Low32(error_code[1]) = Bits32(error[1].code)

\* C10: write_error_marker appends exactly column spaces and one caret.
C10_MarkerShape ==
    /\ pc = "syntax_reported" =>
         context[1] = prefix[1] \o Spaces(entry.problem_mark.column) \o <<CARET>>
    /\ (pc = "semantic_reported" /\ Positional) =>
         context[1] = prefix[1] \o Spaces(node[1].column) \o <<CARET>>

C10_Witness ==
    /\ pc = "syntax_reported"
    /\ entry.buffer = <<"a", NUL>>
    /\ entry.problem_mark.column = 2
    /\ context = Ptr(<<"a", NL, SP, SP, CARET>>)

====
